---------------------------- MODULE Spec2Model ----------------------------
(***************************************************************************)
(* The Redis policy manager of ladon-community                             *)
(* (src/manager/redis/manager_redis.go): a store of access-control         *)
(* policies that keeps one string key per policy and, per subject and per  *)
(* resource literal, a Redis hash from policy id to the policy's payload.  *)
(* Its calls are modelled whole (Spec), command by command for racing      *)
(* callers (ConcSpec, RaceSpec, ListSpec) and on a failing connection     *)
(* (FailSpec),                                                             *)
(* on several managers over one Redis (IsoSpec), and beside the two other  *)
(* variants of the manager in src/unnamed/part_000 (SideSpec).             *)
(*                                                                         *)
(* Strings are sequences of tokens (<<"ladon", "_", "policy">>), so that   *)
(* strings.Join is real concatenation.  A Go slice of strings is a         *)
(* sequence; a nil slice and an empty one are both <<>>: encoding/json     *)
(* keeps each as it is (null, []), and range treats them alike.            *)
(***************************************************************************)
EXTENDS Integers, Sequences, FiniteSets, Bags, TLC

VARIABLES
    db,     \* the Redis keyspace: key -> string value or hash
    last,   \* the call that returned last: [op, arg, err, val]
    nmut,   \* number of calls that changed the keyspace so far
    calls,  \* concurrent callers: caller -> the call it is in, and where
    m       \* the RedisManager the calls are made on

vars == <<db, last, nmut, calls, m>>

---------------------------------------------------------------------------
(* Bounds of the model. *)

\* Calls that change the keyspace in one run of the sequential store.
MaxMutations == 3

\* Largest limit and offset handed to GetAll.
MaxPage == 2

\* The callers that run one call each at the same time.
Callers == {"c1", "c2"}

\* Policy identifiers, and the subject / resource literals policies name.
IDs == {<<"1">>, <<"2">>}
Literals == {<<"a">>, <<"b">>}

\* The Subjects and Resources slices callers use.
SubjectLists == {<<>>, << <<"a">> >>, << <<"a">>, <<"b">> >>}
ResourceLists == {<<>>, << <<"a">> >>}

---------------------------------------------------------------------------
(* Go values. *)

\* The nil error, and a nil Conditions map.
Nil == "nil"

\* Conditions{}: the initialized, empty condition set; its JSON is {}.
EmptyConditions == "{}"

\* What a Get returns beside a non-nil error: the nil Policy.
NilPolicy == [nil |-> TRUE]

ErrPolicyExists == "Policy exists"
ErrNotFound == "Not found"

\* Errors of the Redis server.
RedisNil == "redis: nil"
RedisWrongType == "WRONGTYPE Operation against a key holding the wrong kind of value"
RedisWrongArgs == "ERR wrong number of arguments for 'mget' command"

\* The error of a command that did not reach the server or whose reply was
\* lost: the client's transport error.
Unavailable == "dial tcp: connection refused"

prefixPolicy == <<"policy">>
prefixResource == <<"resource">>
prefixSubject == <<"subject">>

\* strings.Join(vals, "_") of three strings.
prefixKey(a, b, c) == a \o <<"_">> \o b \o <<"_">> \o c

NewRedisManager(prefix) == IF prefix = <<>> THEN <<"ladon">> ELSE prefix

\* The RedisManager that NewRedisManager(db, prefix) returns; beside the
\* struct's keyPrefix it remembers the prefix it was built with.
RedisManager(prefix) == [prefix |-> prefix, keyPrefix |-> NewRedisManager(prefix)]

\* m.keyPrefix of the manager under test.
keyPrefix == m.keyPrefix

\* ladon.DefaultPolicy values the callers hand in.
DefaultPolicy ==
    [ID : IDs, Subjects : SubjectLists, Resources : ResourceLists,
     Actions : {<< <<"get">> >>}, Effect : {"allow"},
     Conditions : {Nil, EmptyConditions}]

---------------------------------------------------------------------------
(* The record codec: encoding/json with ladon's DefaultPolicy. *)

\* json.Marshal(policy).  A nil Conditions map is written as {}, like an
\* empty one.
jsonMarshal(policy) ==
    [id |-> policy.ID, subjects |-> policy.Subjects,
     resources |-> policy.Resources, actions |-> policy.Actions,
     effect |-> policy.Effect,
     conditions |-> IF policy.Conditions = Nil THEN EmptyConditions
                    ELSE policy.Conditions]

\* json.Unmarshal(b, p) into a fresh &DefaultPolicy{}.
jsonUnmarshal(b) ==
    [ID |-> b.id, Subjects |-> b.subjects, Resources |-> b.resources,
     Actions |-> b.actions, Effect |-> b.effect, Conditions |-> b.conditions]

---------------------------------------------------------------------------
(* The backing store: Redis commands on a keyspace d.  A value is          *)
(* [t |-> "string", s |-> payload] or [t |-> "hash", h |-> field -> payload]. *)

Without(f, k) == [x \in DOMAIN f \ {k} |-> f[x]]

\* GET key
RGet(d, key) ==
    IF key \notin DOMAIN d THEN [err |-> RedisNil, val |-> Nil]
    ELSE IF d[key].t # "string" THEN [err |-> RedisWrongType, val |-> Nil]
    ELSE [err |-> Nil, val |-> d[key].s]

\* SET key value: overwrites whatever the key held.
RSet(d, key, value) ==
    [db |-> (key :> [t |-> "string", s |-> value]) @@ d, err |-> Nil]

\* DEL key
RDel(d, key) == [db |-> Without(d, key), err |-> Nil]

\* Mutant of RHMSet: the hash is replaced by one that holds the field alone.
RHMSet_NewHash(d, key, field, value) ==
    [db |-> (key :> [t |-> "hash", h |-> (field :> value)]) @@ d, err |-> Nil]

\* HMSET key field value
RHMSet(d, key, field, value) ==
    IF key \in DOMAIN d /\ d[key].t # "hash"
    THEN [db |-> d, err |-> RedisWrongType]
    ELSE LET old == IF key \in DOMAIN d THEN d[key].h ELSE <<>>
         IN [db |-> (key :> [t |-> "hash", h |-> (field :> value) @@ old]) @@ d,
             err |-> Nil]

\* HDEL key field: a hash that loses its last field is removed.
RHDel(d, key, field) ==
    IF key \notin DOMAIN d THEN [db |-> d, err |-> Nil]
    ELSE IF d[key].t # "hash" THEN [db |-> d, err |-> RedisWrongType]
    ELSE LET h == Without(d[key].h, field)
         IN [db |-> IF DOMAIN h = {} THEN Without(d, key)
                    ELSE (key :> [t |-> "hash", h |-> h]) @@ d,
             err |-> Nil]

\* HGETALL key: the field -> value map, empty for an absent key.
RHGetAll(d, key) ==
    IF key \notin DOMAIN d THEN [err |-> Nil, val |-> <<>>]
    ELSE IF d[key].t # "hash" THEN [err |-> RedisWrongType, val |-> <<>>]
    ELSE [err |-> Nil, val |-> d[key].h]

IsPrefix(p, s) == Len(p) <= Len(s) /\ SubSeq(s, 1, Len(p)) = p

\* KEYS prefix*: the set of matching keys (the server lists them in an
\* order of its own).
RKeys(d, prefix) == {k \in DOMAIN d : IsPrefix(prefix, k)}

\* MGET keys...: the client sends the command with the keys it is given, and
\* the server rejects an MGET without a key (its arity is at least one key);
\* a key that is absent or holds no string yields nil.
RMGet(d, keys) ==
    IF keys = <<>> THEN [err |-> RedisWrongArgs, val |-> <<>>]
    ELSE [err |-> Nil,
          val |-> [i \in 1..Len(keys) |->
                     IF keys[i] \in DOMAIN d /\ d[keys[i]].t = "string"
                     THEN [nil |-> FALSE, s |-> d[keys[i]].s]
                     ELSE [nil |-> TRUE]]]

---------------------------------------------------------------------------
(* RedisManager's methods, each as the result [db, err, val] of running it *)
(* on keyspace d.                                                          *)

\* Mutant of HMSetEach: the loop is left after its first literal.
HMSetEach_FirstOnly(d, kind, lits, field, p) ==
    IF lits = <<>> THEN [db |-> d, err |-> Nil]
    ELSE RHMSet(d, prefixKey(keyPrefix, kind, Head(lits)), field, p)

\* HMSET of payload p under field in the hash of every literal of lits, in
\* order, stopping at the first error.
RECURSIVE HMSetEach(_, _, _, _, _)
HMSetEach(d, kind, lits, field, p) ==
    IF lits = <<>> THEN [db |-> d, err |-> Nil]
    ELSE LET r == RHMSet(d, prefixKey(keyPrefix, kind, Head(lits)), field, p)
         IN IF r.err # Nil THEN r
            ELSE HMSetEach(r.db, kind, Tail(lits), field, p)

\* Mutant of Create: the policy is written without looking for the key.
Create_NoExistsCheck(d, policy) ==
    LET key == prefixKey(keyPrefix, prefixPolicy, policy.ID)
        p == jsonMarshal(policy)
        set == RSet(d, key, p)
        res == HMSetEach(set.db, prefixResource, policy.Resources, policy.ID, p)
        sub == HMSetEach(res.db, prefixSubject, policy.Subjects, policy.ID, p)
    IN IF res.err # Nil THEN [db |-> res.db, err |-> res.err, val |-> NilPolicy]
       ELSE [db |-> sub.db, err |-> sub.err, val |-> NilPolicy]

Create(d, policy) ==
    LET key == prefixKey(keyPrefix, prefixPolicy, policy.ID)
        p == jsonMarshal(policy)
        set == RSet(d, key, p)
        res == HMSetEach(set.db, prefixResource, policy.Resources, policy.ID, p)
        sub == HMSetEach(res.db, prefixSubject, policy.Subjects, policy.ID, p)
    IN IF RGet(d, key).err = Nil
       THEN [db |-> d, err |-> ErrPolicyExists, val |-> NilPolicy]
       ELSE IF set.err # Nil THEN [db |-> set.db, err |-> set.err, val |-> NilPolicy]
       ELSE IF res.err # Nil THEN [db |-> res.db, err |-> res.err, val |-> NilPolicy]
       ELSE [db |-> sub.db, err |-> sub.err, val |-> NilPolicy]

\* Mutant of Get: the key is built with the subjects' prefix.
Get_SubjectPrefix(d, id) ==
    LET cmd == RGet(d, prefixKey(keyPrefix, prefixSubject, id))
    IN IF cmd.err # Nil THEN [db |-> d, err |-> ErrNotFound, val |-> NilPolicy]
       ELSE [db |-> d, err |-> Nil, val |-> jsonUnmarshal(cmd.val)]

Get(d, id) ==
    LET cmd == RGet(d, prefixKey(keyPrefix, prefixPolicy, id))
    IN IF cmd.err # Nil THEN [db |-> d, err |-> ErrNotFound, val |-> NilPolicy]
       ELSE [db |-> d, err |-> Nil, val |-> jsonUnmarshal(cmd.val)]

\* Mutant of HDelEach: the hash of every literal of lits is deleted as a
\* whole, not the one field.
HDelEach_DropsHash(d, kind, lits, field) ==
    [db |-> [k \in DOMAIN d \ {prefixKey(keyPrefix, kind, lits[i]) : i \in DOMAIN lits}
                |-> d[k]],
     err |-> Nil]

\* HDEL of field from the hash of every literal of lits, in order, stopping
\* at the first error.
RECURSIVE HDelEach(_, _, _, _)
HDelEach(d, kind, lits, field) ==
    IF lits = <<>> THEN [db |-> d, err |-> Nil]
    ELSE LET r == RHDel(d, prefixKey(keyPrefix, kind, Head(lits)), field)
         IN IF r.err # Nil THEN r
            ELSE HDelEach(r.db, kind, Tail(lits), field)

\* Mutant of Delete: the index entries are removed, the policy key is not.
Delete_KeepsKey(d, id) ==
    LET key == prefixKey(keyPrefix, prefixPolicy, id)
        getCmd == RGet(d, key)
        policy == jsonUnmarshal(getCmd.val)
        res == HDelEach(d, prefixResource, policy.Resources, policy.ID)
        sub == HDelEach(res.db, prefixSubject, policy.Subjects, policy.ID)
    IN IF getCmd.err # Nil
       THEN [db |-> d, err |-> ErrNotFound, val |-> NilPolicy]
       ELSE IF res.err # Nil THEN [db |-> res.db, err |-> res.err, val |-> NilPolicy]
       ELSE [db |-> sub.db, err |-> sub.err, val |-> NilPolicy]

Delete(d, id) ==
    LET key == prefixKey(keyPrefix, prefixPolicy, id)
        getCmd == RGet(d, key)
        policy == jsonUnmarshal(getCmd.val)
        del == RDel(d, key)
        res == HDelEach(del.db, prefixResource, policy.Resources, policy.ID)
        sub == HDelEach(res.db, prefixSubject, policy.Subjects, policy.ID)
    IN IF getCmd.err # Nil
       THEN [db |-> d, err |-> ErrNotFound, val |-> NilPolicy]
       ELSE IF del.err # Nil THEN [db |-> del.db, err |-> del.err, val |-> NilPolicy]
       ELSE IF res.err # Nil THEN [db |-> res.db, err |-> res.err, val |-> NilPolicy]
       ELSE [db |-> sub.db, err |-> sub.err, val |-> NilPolicy]

\* Mutant of Update: the policy is written whether or not the key exists.
Update_Upsert(d, policy) ==
    LET key == prefixKey(keyPrefix, prefixPolicy, policy.ID)
        p == jsonMarshal(policy)
        set == RSet(d, key, p)
        res == HMSetEach(set.db, prefixResource, policy.Resources, policy.ID, p)
        sub == HMSetEach(res.db, prefixSubject, policy.Subjects, policy.ID, p)
    IN IF res.err # Nil THEN [db |-> res.db, err |-> res.err, val |-> NilPolicy]
       ELSE [db |-> sub.db, err |-> sub.err, val |-> NilPolicy]

Update(d, policy) ==
    LET key == prefixKey(keyPrefix, prefixPolicy, policy.ID)
        p == jsonMarshal(policy)
        set == RSet(d, key, p)
        res == HMSetEach(set.db, prefixResource, policy.Resources, policy.ID, p)
        sub == HMSetEach(res.db, prefixSubject, policy.Subjects, policy.ID, p)
    IN IF RGet(d, key).err # Nil
       THEN [db |-> d, err |-> ErrNotFound, val |-> NilPolicy]
       ELSE IF set.err # Nil THEN [db |-> set.db, err |-> set.err, val |-> NilPolicy]
       ELSE IF res.err # Nil THEN [db |-> res.db, err |-> res.err, val |-> NilPolicy]
       ELSE [db |-> sub.db, err |-> sub.err, val |-> NilPolicy]

\* The policies decoded from the values of a hash, as a bag: Go ranges over
\* the map HGetAll returns in an unspecified order, so the order of the
\* slice built from it carries no information, its multiplicities do.
RECURSIVE DecodeAll(_, _)
DecodeAll(h, fields) ==
    IF fields = {} THEN EmptyBag
    ELSE LET f == CHOOSE x \in fields : TRUE
         IN SetToBag({jsonUnmarshal(h[f])}) (+) DecodeAll(h, fields \ {f})

FindPoliciesForResource(d, resource) ==
    LET rGetCmd == RHGetAll(d, prefixKey(keyPrefix, prefixResource, resource))
        policies == DecodeAll(rGetCmd.val, DOMAIN rGetCmd.val)
    IN IF rGetCmd.err # Nil THEN [db |-> d, err |-> rGetCmd.err, val |-> EmptyBag]
       ELSE [db |-> d, err |-> Nil, val |-> EmptyBag]

FindPoliciesForSubject(d, subject) ==
    LET sGetCmd == RHGetAll(d, prefixKey(keyPrefix, prefixSubject, subject))
        policies == DecodeAll(sGetCmd.val, DOMAIN sGetCmd.val)
    IN IF sGetCmd.err # Nil THEN [db |-> d, err |-> sGetCmd.err, val |-> EmptyBag]
       ELSE [db |-> d, err |-> Nil, val |-> policies]

\* Mutant of FindRequestCandidates: the resource hash is looked up under the
\* request's subject and the subject hash under its resource.
FindRequestCandidates_SwapsKeys(d, r) ==
    LET rGetCmd == RHGetAll(d, prefixKey(keyPrefix, prefixResource, r.Subject))
        sGetCmd == RHGetAll(d, prefixKey(keyPrefix, prefixSubject, r.Resource))
    IN [db |-> d, err |-> Nil,
        val |-> DecodeAll(rGetCmd.val, DOMAIN rGetCmd.val)
                (+) DecodeAll(sGetCmd.val, DOMAIN sGetCmd.val)]

\* r is a ladon.Request: [Resource, Subject].
FindRequestCandidates(d, r) ==
    LET rGetCmd == RHGetAll(d, prefixKey(keyPrefix, prefixResource, r.Resource))
        sGetCmd == RHGetAll(d, prefixKey(keyPrefix, prefixSubject, r.Subject))
    IN IF rGetCmd.err # Nil THEN [db |-> d, err |-> rGetCmd.err, val |-> EmptyBag]
       ELSE IF sGetCmd.err # Nil THEN [db |-> d, err |-> sGetCmd.err, val |-> EmptyBag]
       ELSE [db |-> d, err |-> Nil,
             val |-> DecodeAll(rGetCmd.val, DOMAIN rGetCmd.val)
                     (+) DecodeAll(sGetCmd.val, DOMAIN sGetCmd.val)]

\* A Go panic (a failed type assertion, a slice out of range).
Panic == "panic"

\* policies[offset:limit] of a slice of length Len(policies).
Slice(policies, offset, limit) ==
    IF 0 <= offset /\ offset <= limit /\ limit <= Len(policies)
    THEN [err |-> Nil, val |-> SubSeq(policies, offset + 1, limit)]
    ELSE [err |-> Panic, val |-> <<>>]

\* The sequences that list every element of the set S once: the orders in
\* which KEYS may answer.
Enumerations(S) ==
    {s \in [1..Cardinality(S) -> S] : \A x \in S : \E i \in DOMAIN s : s[i] = x}

\* GetAll when KEYS lists the policy keys in the order keys.
GetAll(d, limit, offset, keys) ==
    LET mgetcmd == RMGet(d, keys)
        values == mgetcmd.val
        policies == [i \in 1..Len(values) |-> jsonUnmarshal(values[i].s)]
        n == Len(values)
        page == IF offset + limit > n THEN Slice(policies, 0, n)
                ELSE Slice(policies, offset, limit)
    IN IF mgetcmd.err # Nil THEN [db |-> d, err |-> mgetcmd.err, val |-> <<>>]
       ELSE IF \E i \in 1..n : values[i].nil
            THEN [db |-> d, err |-> Panic, val |-> <<>>]
       ELSE [db |-> d, err |-> page.err, val |-> page.val]

---------------------------------------------------------------------------
(* The sequential store: one caller, one call at a time.                   *)

\* A caller that has not called yet.  Beside the call's arguments (policy,
\* id, limit, offset), position (pc, i, the keys a KEYS listed) and results
\* (err, val), fault counts the commands of the call that failed in
\* transport.
Idle == [pc |-> "idle", op |-> "none", policy |-> NilPolicy, id |-> <<>>,
         limit |-> 0, offset |-> 0, keys |-> <<>>, i |-> 0,
         err |-> Nil, val |-> <<>>, fault |-> 0]

NoCall == [op |-> "NewRedisManager", arg |-> keyPrefix, err |-> Nil,
           val |-> NilPolicy]

Init ==
    /\ m = RedisManager(<<>>)
    /\ db = <<>>
    /\ last = NoCall
    /\ nmut = 0
    /\ calls = [c \in Callers |-> Idle]

\* A call op(arg) that returns r.
Return(op, arg, r) ==
    /\ db' = r.db
    /\ last' = [op |-> op, arg |-> arg, err |-> r.err, val |-> r.val]
    /\ nmut' = IF r.db # db THEN nmut + 1 ELSE nmut
    /\ UNCHANGED <<calls, m>>

DoCreate ==
    \E policy \in DefaultPolicy :
        /\ nmut < MaxMutations
        /\ Return("Create", policy, Create(db, policy))

DoUpdate ==
    \E policy \in DefaultPolicy :
        /\ nmut < MaxMutations
        /\ Return("Update", policy, Update(db, policy))

DoDelete ==
    \E id \in IDs :
        /\ nmut < MaxMutations
        /\ Return("Delete", id, Delete(db, id))

DoGet == \E id \in IDs : Return("Get", id, Get(db, id))

DoFindPoliciesForResource ==
    \E resource \in Literals :
        Return("FindPoliciesForResource", resource,
               FindPoliciesForResource(db, resource))

DoFindPoliciesForSubject ==
    \E subject \in Literals :
        Return("FindPoliciesForSubject", subject,
               FindPoliciesForSubject(db, subject))

DoFindRequestCandidates ==
    \E r \in [Resource : Literals, Subject : Literals] :
        Return("FindRequestCandidates", r, FindRequestCandidates(db, r))

DoGetAll ==
    \E limit \in 0..MaxPage, offset \in 0..MaxPage :
        \E keys \in Enumerations(RKeys(db, prefixKey(keyPrefix, prefixPolicy, <<>>))) :
            Return("GetAll", [limit |-> limit, offset |-> offset, keys |-> keys],
                   GetAll(db, limit, offset, keys))

Next ==
    \/ DoCreate
    \/ DoUpdate
    \/ DoDelete
    \/ DoGet
    \/ DoFindPoliciesForResource
    \/ DoFindPoliciesForSubject
    \/ DoFindRequestCandidates
    \/ DoGetAll

Spec == Init /\ [][Next]_vars

---------------------------------------------------------------------------
(* The concurrent store: every caller runs one Create, and the callers'    *)
(* Redis commands interleave.  Each command is atomic; a step is one       *)
(* command of one caller, with the Go code up to the next command.         *)

\* Where Create goes on from loop pc at index i (after its Set: the
\* resources' loop at 1): to the i-th literal of that loop, to the subjects'
\* loop, or to its end.
AfterIndexWrite(call, pc, i) ==
    IF pc = "resources" /\ i <= Len(call.policy.Resources)
    THEN [call EXCEPT !.pc = "resources", !.i = i]
    ELSE IF pc = "resources"
    THEN IF Len(call.policy.Subjects) >= 1
         THEN [call EXCEPT !.pc = "subjects", !.i = 1]
         ELSE [call EXCEPT !.pc = "done", !.i = 0]
    ELSE IF i <= Len(call.policy.Subjects)
    THEN [call EXCEPT !.pc = "subjects", !.i = i]
    ELSE [call EXCEPT !.pc = "done", !.i = 0]

\* Caller c calls Create(policy).
CallCreate(c) ==
    \E policy \in DefaultPolicy :
        /\ calls[c].pc = "idle"
        /\ calls' = [calls EXCEPT ![c] = [Idle EXCEPT !.pc = "get",
                                                      !.op = "Create",
                                                      !.policy = policy]]
        /\ UNCHANGED <<db, last, nmut, m>>

\* m.db.Get(key): Create returns ErrPolicyExists when the key is found.
CreateGet(c) ==
    /\ calls[c].op = "Create" /\ calls[c].pc = "get"
    /\ calls' = [calls EXCEPT ![c] =
           IF RGet(db, prefixKey(keyPrefix, prefixPolicy, calls[c].policy.ID)).err = Nil
           THEN [@ EXCEPT !.pc = "done", !.err = ErrPolicyExists]
           ELSE [@ EXCEPT !.pc = "set"]]
    /\ UNCHANGED <<db, last, nmut, m>>

\* m.db.Set(key, p, 0)
CreateSet(c) ==
    /\ calls[c].op = "Create" /\ calls[c].pc = "set"
    /\ LET policy == calls[c].policy
           r == RSet(db, prefixKey(keyPrefix, prefixPolicy, policy.ID),
                     jsonMarshal(policy))
       IN /\ db' = r.db
          /\ calls' = [calls EXCEPT ![c] =
                 IF r.err # Nil THEN [@ EXCEPT !.pc = "done", !.err = r.err]
                 ELSE AfterIndexWrite(@, "resources", 1)]
    /\ UNCHANGED <<last, nmut, m>>

\* One m.db.HMSet(hmkey, {field: p}) of the resources' or subjects' loop.
CreateHMSet(c) ==
    /\ calls[c].op = "Create" /\ calls[c].pc \in {"resources", "subjects"}
    /\ LET call == calls[c]
           policy == call.policy
           kind == IF call.pc = "resources" THEN prefixResource ELSE prefixSubject
           lits == IF call.pc = "resources" THEN policy.Resources ELSE policy.Subjects
           r == RHMSet(db, prefixKey(keyPrefix, kind, lits[call.i]), policy.ID,
                       jsonMarshal(policy))
       IN /\ db' = r.db
          /\ calls' = [calls EXCEPT ![c] =
                 IF r.err # Nil THEN [@ EXCEPT !.pc = "done", !.err = r.err]
                 ELSE AfterIndexWrite(@, call.pc, call.i + 1)]
    /\ UNCHANGED <<last, nmut, m>>

ConcInit ==
    /\ m = RedisManager(<<>>)
    /\ db = <<>>
    /\ last = NoCall
    /\ nmut = 0
    /\ calls = [c \in Callers |-> Idle]

ConcNext ==
    \E c \in Callers :
        \/ CallCreate(c)
        \/ CreateGet(c)
        \/ CreateSet(c)
        \/ CreateHMSet(c)

ConcSpec == ConcInit /\ [][ConcNext]_vars

---------------------------------------------------------------------------
(* Get, Update and Delete, command by command, as the steps of a caller.   *)

\* Caller c calls Get(id).
CallGet(c) ==
    \E id \in IDs :
        /\ calls[c].pc = "idle"
        /\ calls' = [calls EXCEPT ![c] = [Idle EXCEPT !.pc = "get",
                                                      !.op = "Get",
                                                      !.id = id]]
        /\ UNCHANGED <<db, last, nmut, m>>

\* m.db.Get(key) of Get: whatever error the command has, Get returns
\* ErrNotFound; else the decoded policy.
GetGet(c) ==
    /\ calls[c].op = "Get" /\ calls[c].pc = "get"
    /\ LET cmd == RGet(db, prefixKey(keyPrefix, prefixPolicy, calls[c].id))
       IN calls' = [calls EXCEPT ![c] =
              IF cmd.err # Nil THEN [@ EXCEPT !.pc = "done", !.err = ErrNotFound]
              ELSE [@ EXCEPT !.pc = "done", !.policy = jsonUnmarshal(cmd.val)]]
    /\ UNCHANGED <<db, last, nmut, m>>

\* Caller c calls Update(policy).
CallUpdate(c) ==
    \E policy \in DefaultPolicy :
        /\ calls[c].pc = "idle"
        /\ calls' = [calls EXCEPT ![c] = [Idle EXCEPT !.pc = "get",
                                                      !.op = "Update",
                                                      !.policy = policy]]
        /\ UNCHANGED <<db, last, nmut, m>>

\* m.db.Get(key) of Update: on any error Update returns ErrNotFound.
UpdateGet(c) ==
    /\ calls[c].op = "Update" /\ calls[c].pc = "get"
    /\ calls' = [calls EXCEPT ![c] =
           IF RGet(db, prefixKey(keyPrefix, prefixPolicy, calls[c].policy.ID)).err # Nil
           THEN [@ EXCEPT !.pc = "done", !.err = ErrNotFound]
           ELSE [@ EXCEPT !.pc = "set"]]
    /\ UNCHANGED <<db, last, nmut, m>>

\* m.db.Set(key, p, 0) of Update.
UpdateSet(c) ==
    /\ calls[c].op = "Update" /\ calls[c].pc = "set"
    /\ LET policy == calls[c].policy
           r == RSet(db, prefixKey(keyPrefix, prefixPolicy, policy.ID),
                     jsonMarshal(policy))
       IN /\ db' = r.db
          /\ calls' = [calls EXCEPT ![c] =
                 IF r.err # Nil THEN [@ EXCEPT !.pc = "done", !.err = r.err]
                 ELSE AfterIndexWrite(@, "resources", 1)]
    /\ UNCHANGED <<last, nmut, m>>

\* One m.db.HMSet(hmkey, {field: p}) of Update's resources' or subjects' loop.
UpdateHMSet(c) ==
    /\ calls[c].op = "Update" /\ calls[c].pc \in {"resources", "subjects"}
    /\ LET call == calls[c]
           policy == call.policy
           kind == IF call.pc = "resources" THEN prefixResource ELSE prefixSubject
           lits == IF call.pc = "resources" THEN policy.Resources ELSE policy.Subjects
           r == RHMSet(db, prefixKey(keyPrefix, kind, lits[call.i]), policy.ID,
                       jsonMarshal(policy))
       IN /\ db' = r.db
          /\ calls' = [calls EXCEPT ![c] =
                 IF r.err # Nil THEN [@ EXCEPT !.pc = "done", !.err = r.err]
                 ELSE AfterIndexWrite(@, call.pc, call.i + 1)]
    /\ UNCHANGED <<last, nmut, m>>

\* Caller c calls Delete(id).
CallDelete(c) ==
    \E id \in IDs :
        /\ calls[c].pc = "idle"
        /\ calls' = [calls EXCEPT ![c] = [Idle EXCEPT !.pc = "get",
                                                      !.op = "Delete",
                                                      !.id = id]]
        /\ UNCHANGED <<db, last, nmut, m>>

\* m.db.Get(key) of Delete: on any error Delete returns ErrNotFound; else it
\* decodes the record, whose Resources and Subjects its loops will range
\* over.
DeleteGet(c) ==
    /\ calls[c].op = "Delete" /\ calls[c].pc = "get"
    /\ LET cmd == RGet(db, prefixKey(keyPrefix, prefixPolicy, calls[c].id))
       IN calls' = [calls EXCEPT ![c] =
              IF cmd.err # Nil THEN [@ EXCEPT !.pc = "done", !.err = ErrNotFound]
              ELSE [@ EXCEPT !.pc = "del", !.policy = jsonUnmarshal(cmd.val)]]
    /\ UNCHANGED <<db, last, nmut, m>>

\* m.db.Del(key) of Delete.
DeleteDel(c) ==
    /\ calls[c].op = "Delete" /\ calls[c].pc = "del"
    /\ LET r == RDel(db, prefixKey(keyPrefix, prefixPolicy, calls[c].id))
       IN /\ db' = r.db
          /\ calls' = [calls EXCEPT ![c] =
                 IF r.err # Nil THEN [@ EXCEPT !.pc = "done", !.err = r.err]
                 ELSE AfterIndexWrite(@, "resources", 1)]
    /\ UNCHANGED <<last, nmut, m>>

\* One m.db.HDel(hmkey, policy.ID) of Delete's resources' or subjects' loop.
DeleteHDel(c) ==
    /\ calls[c].op = "Delete" /\ calls[c].pc \in {"resources", "subjects"}
    /\ LET call == calls[c]
           policy == call.policy
           kind == IF call.pc = "resources" THEN prefixResource ELSE prefixSubject
           lits == IF call.pc = "resources" THEN policy.Resources ELSE policy.Subjects
           r == RHDel(db, prefixKey(keyPrefix, kind, lits[call.i]), policy.ID)
       IN /\ db' = r.db
          /\ calls' = [calls EXCEPT ![c] =
                 IF r.err # Nil THEN [@ EXCEPT !.pc = "done", !.err = r.err]
                 ELSE AfterIndexWrite(@, call.pc, call.i + 1)]
    /\ UNCHANGED <<last, nmut, m>>

\* Caller c calls GetAll(limit, offset).
CallGetAll(c) ==
    \E limit \in 0..MaxPage, offset \in 0..MaxPage :
        /\ calls[c].pc = "idle"
        /\ calls' = [calls EXCEPT ![c] = [Idle EXCEPT !.pc = "keys",
                                                      !.op = "GetAll",
                                                      !.limit = limit,
                                                      !.offset = offset]]
        /\ UNCHANGED <<db, last, nmut, m>>

\* m.db.Keys(prefix_policy_*) of GetAll: the keys, in an order of the
\* server's choice.
GetAllKeys(c) ==
    /\ calls[c].op = "GetAll" /\ calls[c].pc = "keys"
    /\ \E keys \in Enumerations(RKeys(db, prefixKey(keyPrefix, prefixPolicy, <<>>))) :
           calls' = [calls EXCEPT ![c] = [@ EXCEPT !.pc = "mget", !.keys = keys]]
    /\ UNCHANGED <<db, last, nmut, m>>

\* m.db.MGet(keys...) of GetAll, on the keyspace as it is by now, and the
\* rest of GetAll: decoding and slicing.
GetAllMGet(c) ==
    /\ calls[c].op = "GetAll" /\ calls[c].pc = "mget"
    /\ LET r == GetAll(db, calls[c].limit, calls[c].offset, calls[c].keys)
       IN calls' = [calls EXCEPT ![c] =
              [@ EXCEPT !.pc = "done", !.err = r.err, !.val = r.val]]
    /\ UNCHANGED <<db, last, nmut, m>>

---------------------------------------------------------------------------
(* Racing callers: Create, Update and Delete calls on one policy id, their *)
(* Redis commands interleaved, on a store that holds that policy or no     *)
(* policy.  No command fails.                                              *)

\* The policies the racing callers hand in: all of one id.
RacePolicy ==
    {p \in DefaultPolicy : p.ID = <<"1">> /\ p.Conditions = EmptyConditions}

RaceInit ==
    /\ m = RedisManager(<<>>)
    /\ db \in {<<>>} \cup {Create(<<>>, p).db : p \in RacePolicy}
    /\ last = NoCall
    /\ nmut = 0
    /\ calls = [c \in Callers |-> Idle]

RaceNext ==
    \E c \in Callers :
        \/ CallCreate(c) /\ calls'[c].policy \in RacePolicy
        \/ CreateGet(c)
        \/ CreateSet(c)
        \/ CreateHMSet(c)
        \/ CallUpdate(c) /\ calls'[c].policy \in RacePolicy
        \/ UpdateGet(c)
        \/ UpdateSet(c)
        \/ UpdateHMSet(c)
        \/ CallDelete(c) /\ calls'[c].id = <<"1">>
        \/ DeleteGet(c)
        \/ DeleteDel(c)
        \/ DeleteHDel(c)

RaceSpec == RaceInit /\ [][RaceNext]_vars

---------------------------------------------------------------------------
(* One caller on a connection that may fail: any command of a call may     *)
(* fail in transport, and then leaves the keyspace as it was.              *)

\* Mutant of CommandFails: a failed write is passed over, and the call goes
\* on to its first index write.
CommandFails_GoesOn(c) ==
    /\ calls[c].pc \in {"get", "set", "del", "resources", "subjects"}
    /\ calls' = [calls EXCEPT ![c] =
           IF @.pc = "get"
           THEN IF @.op = "Create"
                THEN [@ EXCEPT !.pc = "set", !.fault = @ + 1]
                ELSE [@ EXCEPT !.pc = "done", !.err = ErrNotFound, !.fault = @ + 1]
           ELSE [AfterIndexWrite(@, "resources", 1) EXCEPT !.fault = @ + 1]]
    /\ UNCHANGED <<db, last, nmut, m>>

\* The command caller c sends next fails in transport: its Err() is the
\* transport error, and the call goes on as its code does on an error of
\* that command.  A failed Get makes Create go on to its Set (its test is
\* err == nil), and makes Get, Update and Delete return ErrNotFound; a
\* failed Set, Del, HMSet or HDel makes the call return the error.
CommandFails(c) ==
    /\ calls[c].pc \in {"get", "set", "del", "resources", "subjects"}
    /\ calls' = [calls EXCEPT ![c] =
           IF @.pc = "get"
           THEN IF @.op = "Create"
                THEN [@ EXCEPT !.pc = "set", !.fault = @ + 1]
                ELSE [@ EXCEPT !.pc = "done", !.err = ErrNotFound, !.fault = @ + 1]
           ELSE [@ EXCEPT !.pc = "done", !.err = Unavailable, !.fault = @ + 1]]
    /\ UNCHANGED <<db, last, nmut, m>>

\* The policies the store may hold when the caller starts.
StoredPolicy == {q \in DefaultPolicy : q.Conditions = EmptyConditions}

FailInit ==
    /\ m = RedisManager(<<>>)
    /\ db \in LET one == {Create(<<>>, p).db : p \in StoredPolicy}
              IN {<<>>} \cup one \cup {Create(d, p).db : d \in one, p \in StoredPolicy}
    /\ last = NoCall
    /\ nmut = 0
    /\ calls = [c \in Callers |-> Idle]

FailNext ==
    \E c \in {"c1"} :
        \/ CallCreate(c)
        \/ CreateGet(c)
        \/ CreateSet(c)
        \/ CreateHMSet(c)
        \/ CallGet(c)
        \/ GetGet(c)
        \/ CallUpdate(c)
        \/ UpdateGet(c)
        \/ UpdateSet(c)
        \/ UpdateHMSet(c)
        \/ CallDelete(c)
        \/ DeleteGet(c)
        \/ DeleteDel(c)
        \/ DeleteHDel(c)
        \/ CommandFails(c)

FailSpec == FailInit /\ [][FailNext]_vars

---------------------------------------------------------------------------
(* Listing while deleting: callers run GetAll and Delete, their commands   *)
(* interleaved, on a store that holds up to two policies.  No command      *)
(* fails.                                                                  *)

ListNext ==
    \E c \in Callers :
        \/ CallGetAll(c)
        \/ GetAllKeys(c)
        \/ GetAllMGet(c)
        \/ CallDelete(c)
        \/ DeleteGet(c)
        \/ DeleteDel(c)
        \/ DeleteHDel(c)

ListSpec == FailInit /\ [][ListNext]_vars

---------------------------------------------------------------------------
(* Several stores over one Redis: the caller builds a RedisManager with a  *)
(* prefix of its choice, as each test does, and calls Create, Update and   *)
(* Delete on it; the keyspace is the one all the managers share.           *)

\* The prefixes managers are built with: the empty one, the default it
\* stands for, and two that hold the separator and the word policy.
Prefixes == {<<>>, <<"ladon">>, <<"x">>, <<"x", "_", "policy", "_", "y">>}

\* Policy ids, one of them holding the separator and the word policy.
IsoIDs == {<<"1">>, <<"y", "_", "policy", "_", "1">>}

IsoPolicy ==
    [ID : IsoIDs, Subjects : {<<>>, << <<"a">> >>}, Resources : {<<>>, << <<"a">> >>},
     Actions : {<< <<"get">> >>}, Effect : {"allow"},
     Conditions : {EmptyConditions}]

\* m := NewRedisManager(db, prefix)
IsoNewRedisManager ==
    \E prefix \in Prefixes :
        /\ m' = RedisManager(prefix)
        /\ last' = [op |-> "NewRedisManager", arg |-> NewRedisManager(prefix),
                    err |-> Nil, val |-> NilPolicy]
        /\ UNCHANGED <<db, nmut, calls>>

IsoCreate ==
    \E policy \in IsoPolicy :
        /\ nmut < MaxMutations
        /\ Return("Create", policy, Create(db, policy))

IsoUpdate ==
    \E policy \in IsoPolicy :
        /\ nmut < MaxMutations
        /\ Return("Update", policy, Update(db, policy))

IsoDelete ==
    \E id \in IsoIDs :
        /\ nmut < MaxMutations
        /\ Return("Delete", id, Delete(db, id))

IsoNext ==
    \/ IsoNewRedisManager
    \/ IsoCreate
    \/ IsoUpdate
    \/ IsoDelete

IsoSpec == Init /\ [][IsoNext]_vars

---------------------------------------------------------------------------
(* The two other variants of the manager (src/unnamed/part_000): the       *)
(* key-scan store keeps one string key per policy and no index; the        *)
(* single-hash store keeps all policies in one Redis hash.                 *)

\* HSETNX key field value: sets the field if it is not there, and tells
\* whether it did.
RHSetNX(d, key, field, value) ==
    IF key \in DOMAIN d /\ d[key].t # "hash"
    THEN [db |-> d, err |-> RedisWrongType, val |-> FALSE]
    ELSE LET old == IF key \in DOMAIN d THEN d[key].h ELSE <<>>
         IN IF field \in DOMAIN old THEN [db |-> d, err |-> Nil, val |-> FALSE]
            ELSE [db |-> (key :> [t |-> "hash", h |-> (field :> value) @@ old]) @@ d,
                  err |-> Nil, val |-> TRUE]

\* HGET key field
RHGet(d, key, field) ==
    IF key \notin DOMAIN d THEN [err |-> RedisNil, val |-> Nil]
    ELSE IF d[key].t # "hash" THEN [err |-> RedisWrongType, val |-> Nil]
    ELSE IF field \notin DOMAIN d[key].h THEN [err |-> RedisNil, val |-> Nil]
    ELSE [err |-> Nil, val |-> d[key].h[field]]

\* HSCAN key 0, iterated to its end: the reply lists every field followed by
\* its value, the fields in the order fields (one of the server's choice).
RHScan(d, key, fields) ==
    [i \in 1..(2 * Len(fields)) |->
        IF i % 2 = 1 THEN [field |-> fields[(i + 1) \div 2]]
        ELSE [value |-> d[key].h[fields[i \div 2]]]]

\* The keyPrefix the managers of the two variants are built with.
ScanKeyPrefix == <<"scan">>
HashKeyPrefix == <<"hash">>

\* The key-scan store.

\* m.keyPrefix + key
getKey(key) == ScanKeyPrefix \o key

ScanCreate(d, policy) ==
    LET key == getKey(policy.ID)
        set == RSet(d, key, jsonMarshal(policy))
    IN IF RGet(d, key).err = Nil
       THEN [db |-> d, err |-> ErrPolicyExists, val |-> NilPolicy]
       ELSE [db |-> set.db, err |-> set.err, val |-> NilPolicy]

ScanGet(d, id) ==
    LET cmd == RGet(d, getKey(id))
    IN IF cmd.err # Nil THEN [db |-> d, err |-> ErrNotFound, val |-> NilPolicy]
       ELSE [db |-> d, err |-> Nil, val |-> jsonUnmarshal(cmd.val)]

ScanDelete(d, id) ==
    LET key == getKey(id)
        del == RDel(d, key)
    IN IF RGet(d, key).err # Nil
       THEN [db |-> d, err |-> ErrNotFound, val |-> NilPolicy]
       ELSE [db |-> del.db, err |-> del.err, val |-> NilPolicy]

ScanUpdate(d, policy) ==
    LET key == getKey(policy.ID)
        set == RSet(d, key, jsonMarshal(policy))
    IN IF RGet(d, key).err # Nil
       THEN [db |-> d, err |-> ErrNotFound, val |-> NilPolicy]
       ELSE [db |-> set.db, err |-> set.err, val |-> NilPolicy]

\* FindRequestCandidates(r) of the key-scan store, keys being the reply of
\* KEYS prefix*: MGET of these keys, every value decoded; r is not looked
\* at.  A nil value makes v.(string) panic.
ScanFindRequestCandidates(d, r, keys) ==
    LET mgetcmd == RMGet(d, keys)
        values == mgetcmd.val
    IN IF mgetcmd.err # Nil THEN [db |-> d, err |-> mgetcmd.err, val |-> <<>>]
       ELSE IF \E i \in 1..Len(values) : values[i].nil
            THEN [db |-> d, err |-> Panic, val |-> <<>>]
       ELSE [db |-> d, err |-> Nil,
             val |-> [i \in 1..Len(values) |-> jsonUnmarshal(values[i].s)]]

\* The single-hash store.

redisPolicies == <<"ladon:policies">>

redisPolicyExists == "Policy exists"
redisNotFound == "Not found"

redisPoliciesKey == HashKeyPrefix \o redisPolicies

HashCreate(d, policy) ==
    LET cmd == RHSetNX(d, redisPoliciesKey, policy.ID, jsonMarshal(policy))
    IN IF ~cmd.val THEN [db |-> cmd.db, err |-> redisPolicyExists, val |-> NilPolicy]
       ELSE [db |-> cmd.db, err |-> cmd.err, val |-> NilPolicy]

HashGet(d, id) ==
    LET cmd == RHGet(d, redisPoliciesKey, id)
    IN IF cmd.err = RedisNil THEN [db |-> d, err |-> redisNotFound, val |-> NilPolicy]
       ELSE IF cmd.err # Nil THEN [db |-> d, err |-> cmd.err, val |-> NilPolicy]
       ELSE [db |-> d, err |-> Nil, val |-> jsonUnmarshal(cmd.val)]

\* HDEL whether or not the field is there.
HashDelete(d, id) ==
    LET cmd == RHDel(d, redisPoliciesKey, id)
    IN [db |-> cmd.db, err |-> cmd.err, val |-> NilPolicy]

\* return nil
HashUpdate(d, policy) == [db |-> d, err |-> Nil, val |-> NilPolicy]

\* FindRequestCandidates(r) of the single-hash store, on the HSCAN reply
\* that lists the fields in the order fields: each turn of the loop calls
\* iter.Next() twice, passing over a field and decoding the value after it;
\* r is not looked at.
HashFindRequestCandidates(d, r, fields) ==
    LET reply == RHScan(d, redisPoliciesKey, fields)
    IN [db |-> d, err |-> Nil,
        val |-> [j \in 1..(Len(reply) \div 2) |-> jsonUnmarshal(reply[2 * j].value)]]

\* The three stores side by side: every call is made on the indexed store,
\* on the key-scan store and on the single-hash store, each under its own
\* prefix of the keyspace; err and val list the three results in that order.
Side(a, b, c) ==
    [db |-> c.db, err |-> <<a.err, b.err, c.err>>, val |-> <<a.val, b.val, c.val>>]

SideCreate ==
    \E policy \in DefaultPolicy :
        /\ nmut < MaxMutations
        /\ LET a == Create(db, policy)
               b == ScanCreate(a.db, policy)
               c == HashCreate(b.db, policy)
           IN Return("Create", policy, Side(a, b, c))

SideUpdate ==
    \E policy \in DefaultPolicy :
        /\ nmut < MaxMutations
        /\ LET a == Update(db, policy)
               b == ScanUpdate(a.db, policy)
               c == HashUpdate(b.db, policy)
           IN Return("Update", policy, Side(a, b, c))

SideDelete ==
    \E id \in IDs :
        /\ nmut < MaxMutations
        /\ LET a == Delete(db, id)
               b == ScanDelete(a.db, id)
               c == HashDelete(b.db, id)
           IN Return("Delete", id, Side(a, b, c))

SideGet ==
    \E id \in IDs :
        Return("Get", id, Side(Get(db, id), ScanGet(db, id), HashGet(db, id)))

SideNext ==
    \/ SideCreate
    \/ SideUpdate
    \/ SideDelete
    \/ SideGet

SideSpec == Init /\ [][SideNext]_vars

---------------------------------------------------------------------------
(* What a state holds. *)

policyKey(id) == prefixKey(keyPrefix, prefixPolicy, id)

\* Policy id has a primary record in keyspace d.
HasRecord(d, id) == policyKey(id) \in DOMAIN d /\ d[policyKey(id)].t = "string"

\* The ids with a primary record.
Stored(d) == {id \in IDs : HasRecord(d, id)}

\* The policy ids filed under literal lit in the index of kind (subject or
\* resource).
Members(d, kind, lit) ==
    LET key == prefixKey(keyPrefix, kind, lit)
    IN IF key \in DOMAIN d /\ d[key].t = "hash" THEN DOMAIN d[key].h ELSE {}

\* The elements of a sequence.
Range(s) == {s[i] : i \in DOMAIN s}

\* The ids of the policies in a bag of policies.
IdsOf(bag) == {p.ID : p \in BagToSet(bag)}

\* The last call was op and returned no error.
Succeeded(op) == last.op = op /\ last.err = Nil

---------------------------------------------------------------------------
(* C1 *)

\* C1, as stated: after a successful Create(P), Get(P.ID) succeeds and
\* returns a policy equal to P in every field, for every policy P.
C1_GetReturnsCreatedPolicy ==
    Succeeded("Create") =>
        /\ Get(db, last.arg.ID).err = Nil
        /\ Get(db, last.arg.ID).val = last.arg

\* C1, amended: after a successful Create(P) of a policy P whose Conditions
\* are initialized (not nil), Get(P.ID) succeeds and returns a policy equal
\* to P in every field.
C1_GetReturnsCreatedPolicyWithConditions ==
    (Succeeded("Create") /\ last.arg.Conditions # Nil) =>
        /\ Get(db, last.arg.ID).err = Nil
        /\ Get(db, last.arg.ID).val = last.arg

\* A policy with subjects, resources and initialized Conditions was created
\* beside another one.
C1_Witness ==
    /\ Succeeded("Create")
    /\ last.arg.Conditions # Nil
    /\ last.arg.Subjects # <<>>
    /\ last.arg.Resources # <<>>
    /\ Cardinality(Stored(db)) = 2

---------------------------------------------------------------------------
(* C2 *)

\* C2: a Create(P) on an id that has a primary record returns
\* ErrPolicyExists and leaves the whole keyspace as it was: the primary
\* record and every subject and resource hash.
C2_DuplicateCreateChangesNothing ==
    [][(last'.op = "Create" /\ HasRecord(db, last'.arg.ID)) =>
           (last'.err = ErrPolicyExists /\ db' = db)]_vars

\* A Create was refused for an id whose record holds another policy than the
\* one handed in.
C2_Witness ==
    /\ last.op = "Create"
    /\ last.err = ErrPolicyExists
    /\ HasRecord(db, last.arg.ID)
    /\ db[policyKey(last.arg.ID)].s # jsonMarshal(last.arg)
    /\ last.arg.Subjects # <<>>

---------------------------------------------------------------------------
(* C3 *)

\* Every caller has run a Create to its end, all for the same id.
AllCreatedSameId ==
    /\ \A c \in Callers : calls[c].op = "Create" /\ calls[c].pc = "done"
    /\ \A c1, c2 \in Callers : calls[c1].policy.ID = calls[c2].policy.ID

\* C3: when all callers have run Create concurrently with the same id,
\* exactly one Create returned nil, the others returned ErrPolicyExists, and
\* Get returns the policy the successful caller wrote.
C3_ExactlyOneCreateWins ==
    AllCreatedSameId =>
        LET winners == {c \in Callers : calls[c].err = Nil}
        IN /\ Cardinality(winners) = 1
           /\ \A c \in Callers \ winners : calls[c].err = ErrPolicyExists
           /\ \A c \in winners :
                  Get(db, calls[c].policy.ID).val
                      = jsonUnmarshal(jsonMarshal(calls[c].policy))

---------------------------------------------------------------------------
(* C4 *)

\* C4: an Update(P) on an id that has no primary record returns ErrNotFound
\* and leaves the whole keyspace as it was.
C4_UpdateOfAbsentChangesNothing ==
    [][(last'.op = "Update" /\ ~HasRecord(db, last'.arg.ID)) =>
           (last'.err = ErrNotFound /\ db' = db)]_vars

\* An Update naming subjects and resources was refused while another policy
\* is stored.
C4_Witness ==
    /\ last.op = "Update"
    /\ last.err = ErrNotFound
    /\ ~HasRecord(db, last.arg.ID)
    /\ last.arg.Subjects # <<>>
    /\ last.arg.Resources # <<>>
    /\ Stored(db) # {}

---------------------------------------------------------------------------
(* C5 *)

\* C5: a Delete(id) on an id with a record that succeeds leaves a keyspace
\* in which Get(id) and a second Delete(id) return ErrNotFound; a Delete(id)
\* on an id without a record returns ErrNotFound.
C5_DeleteThenNotFound ==
    [][last'.op = "Delete" =>
           IF HasRecord(db, last'.arg)
           THEN last'.err = Nil =>
                    /\ Get(db', last'.arg).err = ErrNotFound
                    /\ Delete(db', last'.arg).err = ErrNotFound
           ELSE last'.err = ErrNotFound]_vars

\* A policy with subjects and resources was deleted while another is stored.
C5_Witness ==
    /\ Succeeded("Delete")
    /\ Stored(db) = IDs \ {last.arg}
    /\ nmut = 3

---------------------------------------------------------------------------
(* C6 *)

\* The reference computation: the stored policies, read by Get, that name
\* subject among their subjects or resource among their resources.
Applicable(d, r) ==
    {Get(d, id).val : id \in {i \in Stored(d) :
        \/ r.Subject \in Range(Get(d, i).val.Subjects)
        \/ r.Resource \in Range(Get(d, i).val.Resources)}}

\* C6: FindRequestCandidates(subject, resource) succeeds and its result
\* holds every stored policy that names the subject or the resource: it is
\* a superset of the reference set.  (Checked in every state of the
\* sequential store, those reached by Creates alone included.)
C6_CandidatesCoverApplicable ==
    \A r \in [Resource : Literals, Subject : Literals] :
        /\ FindRequestCandidates(db, r).err = Nil
        /\ Applicable(db, r) \subseteq BagToSet(FindRequestCandidates(db, r).val)

\* Two Creates in a row stored two policies that share subject a, only one
\* of them naming a resource; exactly one of them applies to (b, a).
C6_Witness ==
    /\ Succeeded("Create")
    /\ nmut = 2
    /\ Stored(db) = IDs
    /\ \A id \in IDs : <<"a">> \in Range(Get(db, id).val.Subjects)
    /\ \E id \in IDs : Get(db, id).val.Resources = <<>>
    /\ \E id \in IDs : Get(db, id).val.Resources # <<>>
    /\ Cardinality(Applicable(db, [Resource |-> <<"a">>, Subject |-> <<"b">>])) = 1

---------------------------------------------------------------------------
(* C7 *)

\* C7: after a successful Update(P'), Get(P'.ID) returns a policy equal to
\* P', FindPoliciesForSubject(s) includes it for every s of P'.Subjects and
\* FindPoliciesForResource(r) includes it for every r of P'.Resources.
\* (Stated for P' with initialized Conditions, as in TestUpdate.)
C7_UpdateIsFoundByItsLiterals ==
    (Succeeded("Update") /\ last.arg.Conditions # Nil) =>
        /\ Get(db, last.arg.ID).val = last.arg
        /\ \A s \in Range(last.arg.Subjects) :
               BagIn(last.arg, FindPoliciesForSubject(db, s).val)
        /\ \A r \in Range(last.arg.Resources) :
               BagIn(last.arg, FindPoliciesForResource(db, r).val)

---------------------------------------------------------------------------
(* C8 *)

\* C8: after a successful Update, the policy id is no longer filed under any
\* subject or resource literal that the old record named and the new one
\* does not, and FindPoliciesForSubject on such a subject no longer returns
\* the policy.
C8_UpdateRemovesDroppedLiterals ==
    [][(last'.op = "Update" /\ last'.err = Nil) =>
           LET id == last'.arg.ID
               old == Get(db, id).val
           IN /\ \A s \in Range(old.Subjects) \ Range(last'.arg.Subjects) :
                     /\ id \notin Members(db', prefixSubject, s)
                     /\ id \notin IdsOf(FindPoliciesForSubject(db', s).val)
              /\ \A r \in Range(old.Resources) \ Range(last'.arg.Resources) :
                     id \notin Members(db', prefixResource, r)]_vars

---------------------------------------------------------------------------
(* C9 *)

\* C9: after a successful Create of a policy, FindPoliciesForResource(r)
\* for every resource r it names, and FindPoliciesForSubject(s) for every
\* subject s it names, return a non-empty result that contains the policy
\* (as Get returns it).
C9_CreatedPolicyFoundByLiteral ==
    Succeeded("Create") =>
        /\ \A r \in Range(last.arg.Resources) :
               BagIn(Get(db, last.arg.ID).val, FindPoliciesForResource(db, r).val)
        /\ \A s \in Range(last.arg.Subjects) :
               BagIn(Get(db, last.arg.ID).val, FindPoliciesForSubject(db, s).val)

---------------------------------------------------------------------------
(* C10 *)

\* The stored policies, as Get returns them.
Collection(d) == {Get(d, id).val : id \in Stored(d)}

\* C10: a GetAll(limit, offset) with offset+limit above the number of stored
\* records returns no error and a slice that holds every stored record
\* exactly once, whatever the number of stored records, zero included.
C10_GetAllBeyondCountReturnsAll ==
    (last.op = "GetAll"
         /\ last.arg.offset + last.arg.limit > Cardinality(Stored(db))) =>
        /\ last.err = Nil
        /\ Len(last.val) = Cardinality(Stored(db))
        /\ Range(last.val) = Collection(db)

---------------------------------------------------------------------------
(* C11 *)

\* The records of the store in the order the enumeration keys lists them.
Enumerated(d, keys) == [i \in 1..Len(keys) |-> jsonUnmarshal(d[keys[i]].s)]

\* C11: a GetAll(limit, offset) with offset+limit not above the number of
\* stored records returns no error and exactly limit records, those at
\* positions offset .. offset+limit-1 of the enumeration.  (Stated for a
\* store that holds at least one record.)
C11_GetAllReturnsPage ==
    (last.op = "GetAll"
         /\ Stored(db) # {}
         /\ last.arg.offset + last.arg.limit <= Cardinality(Stored(db))) =>
        /\ last.err = Nil
        /\ last.val = SubSeq(Enumerated(db, last.arg.keys),
                             last.arg.offset + 1,
                             last.arg.offset + last.arg.limit)

---------------------------------------------------------------------------
(* C12 *)

\* Every policy that has a primary record in keyspace d is filed under each
\* of its subjects in the subject index and under each of its resources in
\* the resource index.
IndexCoversRecords(d) ==
    \A id \in Stored(d) :
        /\ \A s \in Range(Get(d, id).val.Subjects) :
               id \in Members(d, prefixSubject, s)
        /\ \A r \in Range(Get(d, id).val.Resources) :
               id \in Members(d, prefixResource, r)

\* C12: in every state that sequential, failure-free Creates, Updates and
\* Deletes lead to, every policy with a primary record is a member of the
\* subject-index entry of each of its subjects and of the resource-index
\* entry of each of its resources.
C12_IndexCoversEveryRecord == IndexCoversRecords(db)

\* Two policies were created and one of them was then updated to name two
\* subjects and a resource.
C12_Witness ==
    /\ Succeeded("Update")
    /\ nmut = 3
    /\ Stored(db) = IDs
    /\ Len(last.arg.Subjects) = 2
    /\ last.arg.Resources # <<>>
    /\ \E s \in Range(last.arg.Subjects) :
           Members(db, prefixSubject, s) = {last.arg.ID}

---------------------------------------------------------------------------
(* C13 *)

\* Every caller has run a Create, an Update or a Delete to its end.
AllDone ==
    \A c \in Callers :
        calls[c].op \in {"Create", "Update", "Delete"} /\ calls[c].pc = "done"

\* C13: once concurrent Create, Update and Delete calls on one policy id
\* have all returned (no command having failed), every policy with a primary
\* record is a member of the index entry of each of its subjects and
\* resources, and FindRequestCandidates omits no policy id that applies to
\* the request.
C13_RacesLeaveIndexSuperset ==
    AllDone =>
        /\ IndexCoversRecords(db)
        /\ \A r \in [Resource : Literals, Subject : Literals] :
               {p.ID : p \in Applicable(db, r)}
                   \subseteq IdsOf(FindRequestCandidates(db, r).val)

---------------------------------------------------------------------------
(* C14 *)

\* C14: the result of FindRequestCandidates(subject, resource) holds each
\* policy id at most once, also the id of a policy that names both the
\* subject and the resource of the request.
C14_CandidatesHoldEachIdOnce ==
    \A r \in [Resource : Literals, Subject : Literals] :
        LET val == FindRequestCandidates(db, r).val
        IN \A p \in BagToSet(val) :
               /\ CopiesIn(p, val) = 1
               /\ \A q \in BagToSet(val) : q.ID = p.ID => q = p

---------------------------------------------------------------------------
(* C15 *)

\* C15: FindRequestCandidates, FindPoliciesForSubject and
\* FindPoliciesForResource succeed and return only policies that have a
\* primary record: an id that an index entry names but whose primary record
\* is absent is skipped.
C15_FindSkipsTombstones ==
    /\ \A r \in [Resource : Literals, Subject : Literals] :
           /\ FindRequestCandidates(db, r).err = Nil
           /\ IdsOf(FindRequestCandidates(db, r).val) \subseteq Stored(db)
    /\ \A s \in Literals :
           /\ FindPoliciesForSubject(db, s).err = Nil
           /\ IdsOf(FindPoliciesForSubject(db, s).val) \subseteq Stored(db)
    /\ \A r \in Literals :
           /\ FindPoliciesForResource(db, r).err = Nil
           /\ IdsOf(FindPoliciesForResource(db, r).val) \subseteq Stored(db)

---------------------------------------------------------------------------
(* C16 *)

\* C16: a Create, Get, Update or Delete one of whose commands failed in
\* transport has returned, and has returned that failure: not ErrNotFound,
\* not ErrPolicyExists, and Create has not gone on past the failed command.
C16_TransportFailureIsReturned ==
    \A c \in Callers :
        calls[c].fault > 0 => (calls[c].pc = "done" /\ calls[c].err = Unavailable)

---------------------------------------------------------------------------
(* C17 *)

\* C17: in a Create, a Set that fails ends the call with the error and the
\* keyspace unchanged; an HMSet that fails ends the call with the error, the
\* keyspace unchanged by it, and the primary record in place and returned by
\* Get; and neither before its Set nor after its return does the call write
\* anything, so no index write follows a failed write.
C17_CreatePartialFailure ==
    [][\A c \in {"c1"} :
           calls[c].op = "Create" =>
               /\ (calls'[c].fault > calls[c].fault /\ calls[c].pc = "set") =>
                      /\ calls'[c].pc = "done"
                      /\ calls'[c].err = Unavailable
                      /\ db' = db
               /\ (calls'[c].fault > calls[c].fault
                       /\ calls[c].pc \in {"resources", "subjects"}) =>
                      /\ calls'[c].pc = "done"
                      /\ calls'[c].err = Unavailable
                      /\ db' = db
                      /\ Get(db', calls[c].policy.ID).err = Nil
                      /\ Get(db', calls[c].policy.ID).val
                             = jsonUnmarshal(jsonMarshal(calls[c].policy))
               /\ calls[c].pc \in {"get", "done"} => db' = db]_vars

\* A Create has returned the transport error after its Set and its first
\* index write: the record is stored, and the policy is filed under its
\* resource but not under its subjects.
C17_Witness ==
    /\ calls["c1"].op = "Create"
    /\ calls["c1"].pc = "done"
    /\ calls["c1"].err = Unavailable
    /\ calls["c1"].fault = 1
    /\ HasRecord(db, calls["c1"].policy.ID)
    /\ calls["c1"].policy.ID \in Members(db, prefixResource, <<"a">>)
    /\ Len(calls["c1"].policy.Subjects) = 2
    /\ \A s \in Literals : calls["c1"].policy.ID \notin Members(db, prefixSubject, s)

---------------------------------------------------------------------------
(* C18 *)

\* What the store built with prefix q reads in keyspace d: the reply to the
\* GET of each policy key (read by Get), the keys that KEYS lists with their
\* values (read by GetAll), and the reply to the HGETALL of each resource
\* and subject hash (read by FindRequestCandidates).
SameReads(q, d1, d2) ==
    LET kp == NewRedisManager(q)
    IN /\ \A id \in IsoIDs :
              LET g1 == RGet(d1, prefixKey(kp, prefixPolicy, id))
                  g2 == RGet(d2, prefixKey(kp, prefixPolicy, id))
              IN g1.err = g2.err /\ (g1.err = Nil => g1.val = g2.val)
       /\ LET k1 == RKeys(d1, prefixKey(kp, prefixPolicy, <<>>))
              k2 == RKeys(d2, prefixKey(kp, prefixPolicy, <<>>))
          IN k1 = k2 /\ \A k \in k1 : d1[k] = d2[k]
       /\ \A kind \in {prefixResource, prefixSubject}, lit \in Literals :
              LET h1 == RHGetAll(d1, prefixKey(kp, kind, lit))
                  h2 == RHGetAll(d2, prefixKey(kp, kind, lit))
              IN h1.err = h2.err /\ (h1.err = Nil => h1.val = h2.val)

\* C18: a Create, Update or Delete on the store built with one prefix
\* changes nothing that a store built with another prefix reads, so that
\* store's Get, GetAll and FindRequestCandidates return what they returned
\* before; for every pair of different prefixes, the empty one included, and
\* ids that hold the separator.
C18_StoresAreIsolated ==
    [][m' = m =>
           \A q \in Prefixes \ {m.prefix} : SameReads(q, db, db')]_vars

---------------------------------------------------------------------------
(* C19 *)

\* The outcome of a call that returned err: success, AlreadyExists, NotFound,
\* or the error itself.
Outcome(err) ==
    IF err = Nil THEN "success"
    ELSE IF err \in {ErrPolicyExists, redisPolicyExists} THEN "AlreadyExists"
    ELSE IF err \in {ErrNotFound, redisNotFound} THEN "NotFound"
    ELSE err

\* C19: every Create, Get, Update and Delete of a sequential, failure-free
\* run has the same outcome on the indexed store, the key-scan store and the
\* single-hash store, and every Get that succeeds returns the same policy on
\* the three.
C19_VariantsAgree ==
    last.op \in {"Create", "Get", "Update", "Delete"} =>
        /\ Outcome(last.err[1]) = Outcome(last.err[2])
        /\ Outcome(last.err[1]) = Outcome(last.err[3])
        /\ (last.op = "Get" /\ last.err[1] = Nil) =>
               (last.val[1] = last.val[2] /\ last.val[1] = last.val[3])

---------------------------------------------------------------------------
(* C20 *)

\* A nil *Request.
NilRequest == [nil |-> TRUE]

\* The policies that have a primary record in the key-scan store and in the
\* single-hash store, as their Get returns them.
ScanCollection(d) == {ScanGet(d, id).val : id \in {i \in IDs : ScanGet(d, i).err = Nil}}
HashCollection(d) == {HashGet(d, id).val : id \in {i \in IDs : HashGet(d, i).err = Nil}}

\* The fields of the single-hash store's hash.
HashFields(d) ==
    IF redisPoliciesKey \in DOMAIN d THEN DOMAIN d[redisPoliciesKey].h ELSE {}

\* C20: after a Create, Update or Delete that succeeded, on the key-scan
\* store and on the single-hash store FindRequestCandidates(r) returns, for
\* every request r and for the nil request, no error and every policy that
\* has a primary record, each once.
C20_ScanVariantsReturnAll ==
    (last.op \in {"Create", "Update", "Delete"}
         /\ last.err[2] = Nil /\ last.err[3] = Nil) =>
        \A r \in [Resource : Literals, Subject : Literals] \cup {NilRequest} :
            /\ \A keys \in Enumerations(RKeys(db, getKey(<<>>))) :
                   LET f == ScanFindRequestCandidates(db, r, keys)
                   IN /\ f.err = Nil
                      /\ Range(f.val) = ScanCollection(db)
                      /\ Len(f.val) = Cardinality(ScanCollection(db))
            /\ \A fields \in Enumerations(HashFields(db)) :
                   LET f == HashFindRequestCandidates(db, r, fields)
                   IN /\ f.err = Nil
                      /\ Range(f.val) = HashCollection(db)
                      /\ Len(f.val) = Cardinality(HashCollection(db))

---------------------------------------------------------------------------
(* C21 *)

\* What keyspace d holds of policy id: its primary record, and its entry in
\* the hash of literal lit of an index (each as a sequence of none or one
\* payload).
RecordOf(d, id) == IF HasRecord(d, id) THEN <<d[policyKey(id)].s>> ELSE <<>>

EntryOf(d, kind, lit, id) ==
    IF id \in Members(d, kind, lit)
    THEN <<d[prefixKey(keyPrefix, kind, lit)].h[id]>>
    ELSE <<>>

\* Keyspaces d1 and d2 hold the same index entries of the policy ids in ids.
SameEntries(d1, d2, ids) ==
    \A i \in ids, kind \in {prefixResource, prefixSubject}, lit \in Literals :
        EntryOf(d1, kind, lit, i) = EntryOf(d2, kind, lit, i)

\* The policy id a call is about.
CallId(call) ==
    IF call.op \in {"Create", "Update"} THEN call.policy.ID ELSE call.id

\* C21: every command of a call that changes the keyspace is either the
\* call's primary write or one of its index writes, and touches nothing of
\* another id.  The primary write is what the call is for (Create stores a
\* record where none was, Update replaces one, Delete removes the one it has
\* read), and an index write comes after it (Create's and Update's record is
\* stored, Delete's is gone).  So wherever a call stops, by a crash or a
\* failing command, no primary record is lost or altered otherwise, and only
\* index memberships of the call's id are missing or left over.
C21_PrimaryFirstDamageBounded ==
    [][\A c \in {"c1"} :
           LET call == calls[c]
               id == CallId(call)
           IN db' # db =>
                  /\ \A i \in IDs \ {id} : RecordOf(db', i) = RecordOf(db, i)
                  /\ SameEntries(db, db', IDs \ {id})
                  /\ \/ /\ SameEntries(db, db', {id})
                        /\ call.op = "Create" =>
                               /\ RecordOf(db, id) = <<>>
                               /\ RecordOf(db', id) = <<jsonMarshal(call.policy)>>
                        /\ call.op = "Update" =>
                               /\ RecordOf(db, id) # <<>>
                               /\ RecordOf(db', id) = <<jsonMarshal(call.policy)>>
                        /\ call.op = "Delete" =>
                               /\ RecordOf(db, id) = <<jsonMarshal(call.policy)>>
                               /\ RecordOf(db', id) = <<>>
                     \/ /\ RecordOf(db', id) = RecordOf(db, id)
                        /\ call.op \in {"Create", "Update"} =>
                               RecordOf(db, id) = <<jsonMarshal(call.policy)>>
                        /\ call.op = "Delete" => RecordOf(db, id) = <<>>]_vars

---------------------------------------------------------------------------
(* C22 *)

\* C22: every policy that FindRequestCandidates(subject, resource) returns
\* names the subject among its subjects or the resource among its resources,
\* in every state of the sequential store (those reached by Creates and
\* Deletes alone among them).
C22_CandidatesNameSubjectOrResource ==
    \A r \in [Resource : Literals, Subject : Literals] :
        \A p \in BagToSet(FindRequestCandidates(db, r).val) :
            \/ r.Subject \in Range(p.Subjects)
            \/ r.Resource \in Range(p.Resources)

\* After three Creates and Deletes the store holds a policy with subject a
\* and no resource, and FindRequestCandidates(subject b, resource a) has
\* returned without it.
C22_Witness ==
    /\ Succeeded("FindRequestCandidates")
    /\ last.arg = [Resource |-> <<"a">>, Subject |-> <<"b">>]
    /\ nmut = 3
    /\ \E id \in Stored(db) :
           /\ Get(db, id).val.Subjects = << <<"a">> >>
           /\ Get(db, id).val.Resources = <<>>
           /\ id \notin IdsOf(last.val)

---------------------------------------------------------------------------
(* C23 *)

\* Every policy of bag is the policy Get returns for its id in keyspace d.
AllCurrent(d, bag) ==
    \A p \in BagToSet(bag) : Get(d, p.ID).err = Nil /\ Get(d, p.ID).val = p

\* C23: every policy that FindRequestCandidates, FindPoliciesForSubject or
\* FindPoliciesForResource returns is equal to the primary record of its id,
\* as Get returns it, in every state that sequential, failure-free Creates,
\* Updates and Deletes lead to.
C23_LookupsReturnCurrentRecords ==
    /\ \A r \in [Resource : Literals, Subject : Literals] :
           AllCurrent(db, FindRequestCandidates(db, r).val)
    /\ \A s \in Literals : AllCurrent(db, FindPoliciesForSubject(db, s).val)
    /\ \A r \in Literals : AllCurrent(db, FindPoliciesForResource(db, r).val)

---------------------------------------------------------------------------
(* C24 *)

\* C24: when an Update(P) and a Delete(P.ID) have raced and both returned,
\* the Delete with success, and no Create was made, the id has no primary
\* record.
C24_UpdateDoesNotResurrect ==
    \A u, d \in Callers :
        (/\ calls[u].op = "Update" /\ calls[u].pc = "done"
         /\ calls[d].op = "Delete" /\ calls[d].pc = "done"
         /\ calls[d].err = Nil
         /\ calls[u].policy.ID = calls[d].id) =>
            ~HasRecord(db, calls[d].id)

---------------------------------------------------------------------------
(* C25 *)

\* C25: no command of a Create, Update or Delete on policy id X changes the
\* primary record of another id Y or Y's entry in the hash of any subject or
\* resource, whether or not X and Y share literals and wherever the call on
\* X stops.
C25_OtherIdsUntouched ==
    [][\A c \in {"c1"} :
           \A Y \in IDs \ {CallId(calls[c])} :
               /\ RecordOf(db', Y) = RecordOf(db, Y)
               /\ SameEntries(db, db', {Y})]_vars

\* A Create of X with subjects a and b has stopped on a failed command after
\* it filed X under subject a, where another policy Y is filed as well; Y has
\* its record.
C25_Witness ==
    LET call == calls["c1"]
    IN /\ call.op = "Create"
       /\ call.pc = "done"
       /\ call.err = Unavailable
       /\ Len(call.policy.Subjects) = 2
       /\ call.policy.ID \notin Members(db, prefixSubject, <<"b">>)
       /\ \E Y \in IDs \ {call.policy.ID} :
              /\ HasRecord(db, Y)
              /\ {Y, call.policy.ID} \subseteq Members(db, prefixSubject, <<"a">>)

---------------------------------------------------------------------------
(* C26 *)

\* C26: a GetAll whose commands interleave with those of a Delete returns
\* normally, with a result or an error value: it does not panic when a key
\* that KEYS listed is gone by the time of the MGET.  (Stated for
\* offset <= limit, where the slice expression of GetAll is in range.)
C26_GetAllSurvivesDelete ==
    \A c \in Callers :
        (/\ calls[c].op = "GetAll" /\ calls[c].pc = "done"
         /\ calls[c].offset <= calls[c].limit) =>
            calls[c].err # Panic

=============================================================================
